---- MODULE Spec2Model ----
(***************************************************************************)
(* derive_di: the `Container` derive macro and the `injectable` attribute  *)
(* macro of derive_di_macro, together with the code they generate.         *)
(*                                                                         *)
(* Two pipelines are modelled.                                             *)
(*   container: a struct declaration -> derive(Container) -> the expansion *)
(*              is parsed by the compiler -> Default::default() builds the *)
(*              container -> the generated accessors are called.           *)
(*   injectable: a factory specification -> injectable(...) -> the         *)
(*              generated get_service() is called.                         *)
(* An Option is a sequence of length 0 (None) or 1 (Some).                 *)
(***************************************************************************)
EXTENDS Naturals, Sequences, FiniteSets

VARIABLES decl, expansion, cpc, container, ret, written, calls,
          args, impl, ipc, service

vars == <<decl, expansion, cpc, container, ret, written, calls,
          args, impl, ipc, service>>

containerVars == <<decl, expansion, cpc, container, ret, written, calls>>
injectableVars == <<args, impl, ipc, service>>

(***************************************************************************)
(* Bounds of the model.                                                    *)
(***************************************************************************)
MaxFields == 2
MaxAttrs == 2
MaxCalls == 4
MaxExprs == 4

None == <<>>
Some(v) == <<v>>

(***************************************************************************)
(* Struct declarations handed to derive(Container).                        *)
(***************************************************************************)
\* Field identifiers, by position in the struct.
FieldIdents == <<"i_struct", "Logger", "cache", "Repo">>

\* An attribute: its path and the tokens that follow the path.
\*   segment    (Ident)          literal  ("text")      empty  ()
\*   multi      (a::B)           name_value  = "text"
InjectOrigin == [path |-> "inject", tokens |-> "segment", ident |-> "InjectableStruct"]
InjectLiteral == [path |-> "inject", tokens |-> "literal", ident |-> ""]
InjectEmpty == [path |-> "inject", tokens |-> "empty", ident |-> ""]
InjectMulti == [path |-> "inject", tokens |-> "multi", ident |-> ""]
AllowDeadCode == [path |-> "allow", tokens |-> "segment", ident |-> "dead_code"]
DocComment == [path |-> "doc", tokens |-> "name_value", ident |-> ""]

Attributes ==
    {InjectOrigin, InjectLiteral, InjectEmpty, InjectMulti, AllowDeadCode, DocComment}

Segment(id, arguments) == [ident |-> id, arguments |-> arguments]

\* InjectableStruct
TyPlain == [kind |-> "path", segments |-> <<Segment("InjectableStruct", "none")>>]
\* Box<dyn Getter>
TyBox == [kind |-> "path", segments |-> <<Segment("Box", "angle")>>]
\* std::boxed::Box<dyn Getter>
TyStdBox == [kind |-> "path",
             segments |-> <<Segment("std", "none"), Segment("boxed", "none"),
                            Segment("Box", "angle")>>]
\* &'static InjectableStruct
TyRef == [kind |-> "reference", segments |-> <<>>]

Types == {TyPlain, TyBox, TyStdBox, TyRef}

SeqsUpTo(S, n) == UNION {[1..k -> S] : k \in 0..n}

AttrLists == SeqsUpTo(Attributes, MaxAttrs)

\* Every struct of at most MaxFields named fields.
StructDecls ==
    UNION {[1..n -> [attrs : AttrLists, ty : Types]] : n \in 0..MaxFields}

\* The structs the crate's tests and documentation declare: a field of an
\* Injectable type, or a boxed field with an inject annotation.
UsageDecls ==
    UNION {[1..n -> {[attrs |-> <<>>, ty |-> TyPlain],
                     [attrs |-> <<InjectOrigin>>, ty |-> TyBox]}] : n \in 0..MaxFields}

FieldIdent(i) == FieldIdents[i]

\* str::to_lowercase on the field identifiers.
ToLowercase(id) ==
    CASE id = "Logger" -> "logger"
      [] id = "Repo" -> "repo"
      [] OTHER -> id

(***************************************************************************)
(* derive_container_fn                                                     *)
(***************************************************************************)
\* Attribute::parse_args::<PathSegment>().ok().map(|v| v.ident)
ParseArgsPathSegment(attr) ==
    IF attr.tokens = "segment" THEN Some(attr.ident) ELSE None

\* fn_type.path.segments.first().cloned().map(|v| v.ident)
FirstSegmentIdent(ty) ==
    IF Len(ty.segments) = 0 THEN None ELSE Some(ty.segments[1].ident)

\* field.attrs.first()
FirstAttr(field) ==
    IF Len(field.attrs) = 0 THEN None ELSE Some(field.attrs[1])

Direct(i) == [member |-> FieldIdent(i), form |-> "direct", target |-> "", origin |-> ""]
Adapter(i, t, o) == [member |-> FieldIdent(i), form |-> "from", target |-> t, origin |-> o]

\* The new_constructor closure: the initializer of field i.
\*   #var_name: #fn_type::from(#origin_struct_name::get_service())
\*   #var_name: Injectable::get_service()
NewConstructor(field, i) ==
    LET first == FirstAttr(field)
        origin == IF first = None THEN None ELSE ParseArgsPathSegment(first[1])
        target == FirstSegmentIdent(field.ty)
    IN IF first # None /\ field.ty.kind = "path" /\ origin # None /\ target # None
       THEN Adapter(i, target[1], origin[1])
       ELSE Direct(i)

Method(kind, i) ==
    [name |-> <<kind, ToLowercase(FieldIdent(i))>>, kind |-> kind, place |-> FieldIdent(i)]

\* The getters closure: the four methods of field i.
Getters(i) ==
    <<Method("get_", i), Method("get_mut_", i), Method("set_", i), Method("into_", i)>>

RECURSIVE Flatten(_)
Flatten(ss) == IF ss = <<>> THEN <<>> ELSE Head(ss) \o Flatten(Tail(ss))

FieldValue(init) == [tok |-> "field_value", init |-> init]

\* #( #new_constructor )* : the initializers one after the other.
Repeat(inits) == [i \in 1..Len(inits) |-> FieldValue(inits[i])]

DeriveOutput(d) ==
    [methods |-> Flatten([i \in 1..Len(d) |-> Getters(i)]),
     default_body |-> Repeat([i \in 1..Len(d) |-> NewConstructor(d[i], i)])]

NoExpansion == [methods |-> <<>>, default_body |-> <<>>]

\* The compiler's grammar of the fields of a struct expression Self { ... }:
\* field values separated by commas, with an optional trailing comma.
WellFormedStructExpr(toks) ==
    \A k \in 1..Len(toks) :
        toks[k].tok = (IF k % 2 = 1 THEN "field_value" ELSE "comma")

IsFieldValue(t) == t.tok = "field_value"

\* The field initializers of a well-formed struct expression, in order.
StructExprFields(toks) ==
    LET vs == SelectSeq(toks, IsFieldValue) IN [k \in 1..Len(vs) |-> vs[k].init]

DeriveContainer ==
    /\ cpc = "declared"
    /\ expansion' = DeriveOutput(decl)
    /\ cpc' = "expanded"
    /\ UNCHANGED <<decl, container, ret, written, calls, injectableVars>>

ParseAccepted ==
    /\ cpc = "expanded"
    /\ WellFormedStructExpr(expansion.default_body)
    /\ cpc' = "parsed"
    /\ UNCHANGED <<decl, expansion, container, ret, written, calls, injectableVars>>

ParseRejected ==
    /\ cpc = "expanded"
    /\ ~WellFormedStructExpr(expansion.default_body)
    /\ cpc' = "syntax_error"
    /\ UNCHANGED <<decl, expansion, container, ret, written, calls, injectableVars>>

(***************************************************************************)
(* Idle values of the pipeline a specification does not run.               *)
(***************************************************************************)
NoValue == [ty |-> "", of |-> ""]
NoRet == [method |-> <<"", "">>, value |-> NoValue]
NoArgs == [exprs |-> <<>>, seps |-> <<>>, trailing |-> ""]
NoImpl == [status |-> "none", body |-> <<>>]
NoService == [value |-> <<"none", "">>, invoked |-> 0]

ContainerIdle ==
    /\ decl = <<>>
    /\ expansion = NoExpansion
    /\ cpc = "idle"
    /\ container = <<>>
    /\ ret = NoRet
    /\ written = <<>>
    /\ calls = <<>>

InjectableIdle ==
    /\ args = NoArgs
    /\ impl = NoImpl
    /\ ipc = "idle"
    /\ service = NoService

InitDerive ==
    /\ decl \in StructDecls
    /\ expansion = NoExpansion
    /\ cpc = "declared"
    /\ container = <<>>
    /\ ret = NoRet
    /\ written = <<>>
    /\ calls = <<>>
    /\ InjectableIdle

NextDerive == DeriveContainer \/ ParseAccepted \/ ParseRejected

SpecDerive == InitDerive /\ [][NextDerive]_vars

(***************************************************************************)
(* The generated code at run time: Default::default() and the accessors.   *)
(***************************************************************************)
TypeIdent(ty) == ty.segments[Len(ty.segments)].ident

\* The value of one field initializer; the direct form is resolved by the
\* field's declared type, the adapter form is target::from(origin's service).
EvalInitializer(init, ty) ==
    IF init.form = "direct"
    THEN [ty |-> TypeIdent(ty), of |-> "get_service"]
    ELSE [ty |-> init.target, of |-> init.origin]

\* fn default() -> Self { Self { ... } }
DefaultBody(toks, d) ==
    LET inits == StructExprFields(toks)
    IN [f \in {inits[k].member : k \in 1..Len(inits)} |->
            LET k == CHOOSE k \in 1..Len(inits) : inits[k].member = f
            IN EvalInitializer(inits[k], d[k].ty)]

\* Values a caller can put in a field of the given type.
Replacements(ty) == {[ty |-> TypeIdent(ty), of |-> r] : r \in {"GetterMock", "StubGetter"}}

Lookup(name) ==
    LET k == CHOOSE k \in 1..Len(expansion.methods) : expansion.methods[k].name = name
    IN expansion.methods[k]

\* &self.#field_name
GetterBody(self, place) == self[place]

\* &mut self.#field_name, and the write the caller makes through it
GetterMutBody(self, place, v) == [self EXCEPT ![place] = v]

\* self.#field_name = #field_name
SetterBodySkipsWrite(self, place, v) == self
SetterBody(self, place, v) == [self EXCEPT ![place] = v]

\* self.#field_name
IntoBody(self, place) == self[place]

ConstructDefault ==
    /\ cpc = "parsed"
    /\ container' = DefaultBody(expansion.default_body, decl)
    /\ written' = container'
    /\ cpc' = "live"
    /\ UNCHANGED <<decl, expansion, ret, calls, injectableVars>>

CallGet(i) ==
    LET m == Lookup(<<"get_", ToLowercase(FieldIdent(i))>>) IN
    /\ cpc = "live"
    /\ Len(calls) < MaxCalls
    /\ ret' = [method |-> m.name, value |-> GetterBody(container, m.place)]
    /\ calls' = Append(calls, m.name)
    /\ UNCHANGED <<decl, expansion, cpc, container, written, injectableVars>>

CallGetMut(i, v) ==
    LET m == Lookup(<<"get_mut_", ToLowercase(FieldIdent(i))>>) IN
    /\ cpc = "live"
    /\ Len(calls) < MaxCalls
    /\ container' = GetterMutBody(container, m.place, v)
    /\ written' = [written EXCEPT ![FieldIdent(i)] = v]
    /\ ret' = [method |-> m.name, value |-> NoValue]
    /\ calls' = Append(calls, m.name)
    /\ UNCHANGED <<decl, expansion, cpc, injectableVars>>

CallSet(i, v) ==
    LET m == Lookup(<<"set_", ToLowercase(FieldIdent(i))>>) IN
    /\ cpc = "live"
    /\ Len(calls) < MaxCalls
    /\ container' = SetterBody(container, m.place, v)
    /\ written' = [written EXCEPT ![FieldIdent(i)] = v]
    /\ ret' = [method |-> m.name, value |-> NoValue]
    /\ calls' = Append(calls, m.name)
    /\ UNCHANGED <<decl, expansion, cpc, injectableVars>>

CallInto(i) ==
    LET m == Lookup(<<"into_", ToLowercase(FieldIdent(i))>>) IN
    /\ cpc = "live"
    /\ Len(calls) < MaxCalls
    /\ ret' = [method |-> m.name, value |-> IntoBody(container, m.place)]
    /\ container' = <<>>
    /\ cpc' = "consumed"
    /\ calls' = Append(calls, m.name)
    /\ UNCHANGED <<decl, expansion, written, injectableVars>>

Get == \E i \in 1..Len(decl) : CallGet(i)
GetMut == \E i \in 1..Len(decl) : \E v \in Replacements(decl[i].ty) : CallGetMut(i, v)
Set == \E i \in 1..Len(decl) : \E v \in Replacements(decl[i].ty) : CallSet(i, v)
Into == \E i \in 1..Len(decl) : CallInto(i)

InitContainer ==
    /\ decl \in UsageDecls
    /\ expansion = NoExpansion
    /\ cpc = "declared"
    /\ container = <<>>
    /\ ret = NoRet
    /\ written = <<>>
    /\ calls = <<>>
    /\ InjectableIdle

NextContainer ==
    \/ DeriveContainer
    \/ ParseAccepted
    \/ ParseRejected
    \/ ConstructDefault
    \/ Get
    \/ GetMut
    \/ Set
    \/ Into

SpecContainer == InitContainer /\ [][NextContainer]_vars


(***************************************************************************)
(* Factory specifications handed to injectable(...).                       *)
(***************************************************************************)
\* An expression: its syn::Expr variant, its token text, what a closure
\* returns when invoked, and whether evaluating it yields a closure.
Expression(kind, text, returns, closure) ==
    [kind |-> kind, text |-> text, returns |-> returns, closure |-> closure]

\* factory
PathFactory == Expression("Path", "factory", "", FALSE)
\* "factory"
LitFactory == Expression("Lit", "\"factory\"", "", FALSE)
\* factory_struct()
CallFactoryStruct == Expression("Call", "factory_struct()", "", FALSE)
\* || InjectableStruct
ClosureExpr == Expression("Closure", "|| InjectableStruct", "InjectableStruct", TRUE)
\* (|| InjectableStruct)
ParenClosure == Expression("Paren", "(|| InjectableStruct)", "InjectableStruct", TRUE)
\* vec![]
MacroExpr == Expression("Macro", "vec![]", "", FALSE)

Exprs == {PathFactory, LitFactory, CallFactoryStruct, ClosureExpr, ParenClosure, MacroExpr}

\* The argument tokens of injectable(...): at most MaxExprs expressions, the
\* punctuation between neighbours ("=>" or ","), and what follows the last
\* expression (nothing, or an arrow left without a right-hand expression).
FactorySpecs ==
    UNION {[exprs : [1..n -> Exprs],
            seps : [1..(IF n = 0 THEN 0 ELSE n - 1) -> {"=>", ","}],
            trailing : {"", "=>"}] : n \in 0..MaxExprs}

(***************************************************************************)
(* injectable, InjectableArgsStruct::parse, expr_to_token_stream           *)
(***************************************************************************)
AcceptedKinds ==
    {"Call", "Lit", "MethodCall", "Path", "Box", "Return", "Paren", "Struct",
     "Index", "Field", "Binary", "Block", "Cast"}

\* quote!(#expr)
Verbatim(expr) == <<expr.text>>
\* quote! { (#expr)() }
Invoked(expr) == <<"(", expr.text, ")", "(", ")">>
\* quote! { Default::default() }
DefaultTokens == <<"Default", "::", "default", "(", ")">>

ExprToTokenStreamKeepsClosure(expr) ==
    IF expr.kind \in AcceptedKinds \cup {"Closure"} THEN Some(Verbatim(expr)) ELSE None

expr_to_token_stream(expr) ==
    IF expr.kind \in AcceptedKinds THEN Some(Verbatim(expr))
    ELSE IF expr.kind = "Closure" THEN Some(Invoked(expr))
    ELSE None

\* |arg| arg.first().cloned().and_then(expr_to_token_stream)
\*           .filter(|key| key.to_string() == "factory").is_some()
KeyIsFactory(arg) == expr_to_token_stream(arg[1]) = Some(<<"factory">>)

\* args.iter().find(...)
Find(items) ==
    LET hits == {k \in 1..Len(items) : KeyIsFactory(items[k])}
    IN IF hits = {} THEN None
       ELSE Some(items[CHOOSE k \in hits : \A j \in hits : k <= j])

\* Punctuated::parse_terminated_with(input, Punctuated::parse_separated_nonempty):
\* the chains of "=>"-joined expressions, one chain per comma-separated item.
RECURSIVE ParseTerminated(_, _)
ParseTerminated(exprs, seps) ==
    IF exprs = <<>> THEN <<>>
    ELSE IF seps = <<>> THEN <<exprs>>
    ELSE LET rest == ParseTerminated(Tail(exprs), Tail(seps))
         IN IF Head(seps) = ","
            THEN <<<<Head(exprs)>>>> \o rest
            ELSE <<<<Head(exprs)>> \o Head(rest)>> \o Tail(rest)

\* InjectableArgsStruct::parse
ParseFactory(a) ==
    IF a.trailing = "=>" THEN [status |-> "error", body |-> <<>>]
    ELSE LET found == Find(ParseTerminated(a.exprs, a.seps))
             value == IF found = None THEN None
                      ELSE expr_to_token_stream(found[1][Len(found[1])])
         IN [status |-> "ok",
             body |-> IF value = None THEN DefaultTokens ELSE value[1]]

\* The expression a token text spells.
ExprOfText(t) == CHOOSE e \in Exprs : e.text = t

\* What running a get_service body does: the value it yields and how many
\* times a closure is invoked on the way.
Evaluate(body) ==
    IF body = DefaultTokens THEN [value |-> <<"value", "Default::default()">>, invoked |-> 0]
    ELSE IF Len(body) = 5
         THEN [value |-> <<"value", ExprOfText(body[2]).returns>>, invoked |-> 1]
         ELSE LET e == ExprOfText(body[1])
              IN [value |-> <<IF e.closure THEN "closure" ELSE "value", e.text>>,
                  invoked |-> 0]

\* injectable: parse the arguments, emit the impl with #factory as the body.
InjectableMacro ==
    /\ ipc = "args"
    /\ impl' = ParseFactory(args)
    /\ ipc' = IF impl'.status = "ok" THEN "expanded" ELSE "error"
    /\ UNCHANGED <<args, service, containerVars>>

\* fn get_service() -> Self { #factory }, called.
GetService ==
    /\ ipc = "expanded"
    /\ Evaluate(impl.body).value[1] = "value"
    /\ service' = Evaluate(impl.body)
    /\ ipc' = "called"
    /\ UNCHANGED <<args, impl, containerVars>>

\* fn get_service() -> Self { #factory } with a body that is a closure: the
\* compiler rejects the body, a closure is not Self.
RejectClosureBody ==
    /\ ipc = "expanded"
    /\ Evaluate(impl.body).value[1] = "closure"
    /\ ipc' = "type_error"
    /\ UNCHANGED <<args, impl, service, containerVars>>

InitInjectable ==
    /\ args \in FactorySpecs
    /\ impl = NoImpl
    /\ ipc = "args"
    /\ service = NoService
    /\ ContainerIdle

NextInjectable == InjectableMacro \/ GetService \/ RejectClosureBody

SpecInjectable == InitInjectable /\ [][NextInjectable]_vars


(***************************************************************************)
(* Claims about derive(Container).                                         *)
(***************************************************************************)
Expanded == cpc \in {"expanded", "parsed", "syntax_error", "live", "consumed"}

Initializer(i) == expansion.default_body[i].init

InjectAttrs(field) == {k \in 1..Len(field.attrs) : field.attrs[k].path = "inject"}

WellFormedInject(a) == a.path = "inject" /\ a.tokens = "segment"

SimplePath(ty) == ty.kind = "path" /\ Len(ty.segments) = 1

Unannotated(d) == \A i \in 1..Len(d) : d[i].attrs = <<>>

\* C1: for a struct of N named fields without annotations (N >= 2 included)
\* the emitted Default body is a well-formed struct expression that
\* initialises every field exactly once, in declaration order, with that
\* field type's own Injectable::get_service().
C1_DefaultInitialisesEveryField ==
    (Expanded /\ Unannotated(decl)) =>
        /\ WellFormedStructExpr(expansion.default_body)
        /\ StructExprFields(expansion.default_body) = [i \in 1..Len(decl) |-> Direct(i)]

\* C2: a field that carries a valid #[inject(O)] and whose declared type T is
\* a simple type path is initialised with T::from(O::get_service()), whatever
\* other attributes it carries and in whatever order.
C2_ValidAnnotationEmitsAdapter ==
    Expanded =>
        \A i \in 1..Len(decl) : \A k \in InjectAttrs(decl[i]) :
            (/\ InjectAttrs(decl[i]) = {k}
             /\ WellFormedInject(decl[i].attrs[k])
             /\ SimplePath(decl[i].ty)) =>
                Initializer(i) =
                    Adapter(i, decl[i].ty.segments[1].ident, decl[i].attrs[k].ident)

\* C3: a field that carries no inject annotation is initialised with the
\* direct Injectable::get_service(), whatever other attributes it carries.
C3_NoAnnotationEmitsDirect ==
    Expanded =>
        \A i \in 1..Len(decl) :
            InjectAttrs(decl[i]) = {} => Initializer(i) = Direct(i)

\* C7: a field whose inject annotation has an argument that is not exactly
\* one type-path segment is initialised with the direct
\* Injectable::get_service(), the annotation counting as absent.
C7_MalformedAnnotationEmitsDirect ==
    Expanded =>
        \A i \in 1..Len(decl) :
            (/\ Cardinality(InjectAttrs(decl[i])) = 1
             /\ \A k \in InjectAttrs(decl[i]) : ~WellFormedInject(decl[i].attrs[k]))
                => Initializer(i) = Direct(i)

\* C8: a field whose only attribute is a well-formed #[inject(O)] falls back
\* to the direct Injectable::get_service() unless its declared type is a
\* single-segment path T, and the adapter form is emitted only for such a
\* type, as T::from(O::get_service()).
C8_AdapterOnlyForSingleSegmentType ==
    Expanded =>
        \A i \in 1..Len(decl) :
            (Len(decl[i].attrs) = 1 /\ WellFormedInject(decl[i].attrs[1])) =>
                /\ ~SimplePath(decl[i].ty) => Initializer(i) = Direct(i)
                /\ Initializer(i).form = "from" =>
                      /\ SimplePath(decl[i].ty)
                      /\ Initializer(i).target = decl[i].ty.segments[1].ident

(***************************************************************************)
(* Claims about the generated accessors.                                   *)
(***************************************************************************)
\* The field a caller addresses with get_<f>, set_<f>, ...: the one whose
\* lower-cased identifier ends the method name.
AddressedField(name) ==
    FieldIdent(CHOOSE i \in 1..Len(decl) : ToLowercase(FieldIdent(i)) = name[2])

\* C9: after any sequence of set_f calls and writes through get_mut_f, get_f
\* returns the value most recently written to f (the default-constructed
\* value if f was never written), and into_f consumes the container and
\* returns that same value.
C9_AccessorsReturnLastWritten ==
    /\ cpc = "live" => \A f \in DOMAIN container : GetterBody(container, f) = written[f]
    /\ (cpc \in {"live", "consumed"} /\ ret.method[1] \in {"get_", "into_"}) =>
            ret.value = written[AddressedField(ret.method)]
    /\ (cpc = "live" /\ calls # <<>>) => ret.method[1] # "into_"
    /\ cpc = "consumed" => (ret.method[1] = "into_" /\ container = <<>>)

\* A mock was written, another one was written over it through get_mut, and
\* get then returned the second.
C9_Witness ==
    /\ cpc = "live"
    /\ Len(calls) = 3
    /\ calls[1][1] = "set_"
    /\ calls[2][1] = "get_mut_"
    /\ ret.method[1] = "get_"
    /\ ret.value.of = "StubGetter"

(***************************************************************************)
(* Claims about injectable(...).                                           *)
(***************************************************************************)
Emitted == ipc \in {"expanded", "called", "type_error"}

Items == ParseTerminated(args.exprs, args.seps)

Last(chain) == chain[Len(chain)]

\* The items whose key, as written, is the identifier factory.
FactoryKeyed == {k \in 1..Len(Items) : Items[k][1].text = "factory"}

FirstFactoryKeyed == CHOOSE k \in FactoryKeyed : \A j \in FactoryKeyed : k <= j

AllPairs == \A k \in 1..Len(Items) : Len(Items[k]) = 2

Supported(e) == e.kind \in AcceptedKinds \cup {"Closure"}

\* A right-hand expression as a get_service body: as written, a closure in
\* its immediately-invoked form.
AsBody(e) == IF e.kind = "Closure" THEN Invoked(e) ELSE Verbatim(e)

\* C4: for a specification made of `key => value` pairs the emitted body is
\* the right-hand expression of the first pair whose key text is factory,
\* and Default::default() when there is no such pair.
C4_BodyIsFirstFactoryValue ==
    (Emitted /\ AllPairs) =>
        impl.body = IF FactoryKeyed = {} THEN DefaultTokens
                    ELSE AsBody(Last(Items[FirstFactoryKeyed]))

\* C5: when the right-hand expression of a pair is of no accepted shape, the
\* expansion fails with an error and no implementation is emitted.
C5_UnsupportedShapeIsAnError ==
    (/\ ipc # "args"
     /\ \E k \in 1..Len(Items) : Len(Items[k]) = 2 /\ ~Supported(Last(Items[k])))
        => ipc = "error"

\* C6 as stated: the emitted body is never a closure value, and a closure
\* factory is emitted as (|| e)(), invoked once per call, yielding its result.
C6_BodyNeverAClosureValue ==
    /\ Emitted => Evaluate(impl.body).value[1] # "closure"
    /\ (Emitted /\ AllPairs /\ FactoryKeyed # {}) =>
          LET rhs == Last(Items[FirstFactoryKeyed])
          IN rhs.kind = "Closure" =>
                /\ impl.body = Invoked(rhs)
                /\ ipc = "called" =>
                      service = [value |-> <<"value", rhs.returns>>, invoked |-> 1]

\* C6 as amended: a factory expression whose outermost shape is a closure is
\* emitted as (|| e)(), which invokes the closure exactly once per
\* get_service call and yields its result; a factory expression of any
\* other accepted shape is emitted as written and invokes nothing, so the
\* body is a closure value exactly when that expression itself is one.
C6_TopLevelClosureIsInvoked ==
    (Emitted /\ FactoryKeyed # {} /\ Len(Items[FirstFactoryKeyed]) >= 2) =>
        LET rhs == Last(Items[FirstFactoryKeyed])
        IN /\ rhs.kind = "Closure" =>
                /\ impl.body = Invoked(rhs)
                /\ ipc # "type_error"
                /\ ipc = "called" =>
                      service = [value |-> <<"value", rhs.returns>>, invoked |-> 1]
           /\ rhs.kind \in AcceptedKinds =>
                /\ impl.body = Verbatim(rhs)
                /\ ipc = "called" => service.invoked = 0
                /\ ipc = "type_error" <=> (ipc # "expanded" /\ rhs.closure)

\* factory => || InjectableStruct was expanded and get_service was called.
C6_Witness ==
    /\ ipc = "called"
    /\ Len(Items) = 1
    /\ Items[1] = <<PathFactory, ClosureExpr>>
    /\ service.invoked = 1

\* C10: the resolved factory expression is Default::default() or the
\* closure-normalised right-hand side of an item keyed factory; a key is
\* never emitted as the body, also for an item written without "=>".
C10_KeyNeverEmitted ==
    Emitted =>
        \/ impl.body = DefaultTokens
        \/ \E k \in FactoryKeyed :
              Len(Items[k]) >= 2 /\ impl.body = AsBody(Last(Items[k]))

====
